---------------------------- MODULE Spec2Model ----------------------------
(***************************************************************************)
(* State-machine model of the authserver login dialogue of pymycqu:        *)
(* AuthserverAuthorizer (src/mycqu/auth/_authserver.py) driven by the      *)
(* login template method of its base class Authorizer.                     *)
(*                                                                         *)
(* The base class (mycqu/auth/_authorizer.py), the page parser             *)
(* (mycqu/auth/_page_parser.py) and the exception classes are modelled     *)
(* from the specification (section 4.2): the login template method, the    *)
(* logout request, _get_formdata and the NeedCaptcha resumption.           *)
(*                                                                         *)
(* Every HTTP exchange is one step: the request is appended to `log`, the  *)
(* provider's reply is an input chosen from a small set.                   *)
(***************************************************************************)
EXTENDS Integers, Sequences, FiniteSets, TLC

VARIABLES
    self,          \* the Authorizer's fields (constructor arguments)
    pc,            \* position of the running invocation, "idle" when none runs
    ctx,           \* the running top-level invocation: its kind (login, after_captcha,
                   \* kick, cancel) and the invocation whose continuation it is
    log,           \* every HTTP request sent through the session, in order
    extractions,   \* every call of _get_formdata: where in the log, on what page, outcome
    login_page,    \* _get_request_data's local `login_page`, kept until the driver's
                   \* next call
    request_data,  \* the dict returned by _get_request_data (mutated by the captcha handler)
    login_resp,    \* the reply whose Location _redirect_to_service follows
    parser,        \* _LoginedPageParser fields captured by the kick/cancel closures
    calls,         \* finished top-level invocations: who, outcome, returned response
    invoked,       \* number of continuation invocations made by the caller so far
    captcha,       \* the answer last handed to _need_captcha_handler, "None" if none
    facade,        \* the last call of a function of mycqu.auth: arguments, backend
                   \* invocations made, result
    card           \* the last call of _get_ticket: the reply it got, its result

vars == <<self, pc, ctx, log, extractions, login_page, request_data,
          login_resp, parser, calls, invoked, captcha, facade, card>>

-----------------------------------------------------------------------------
(* Bounds of the model *)

\* how many times the caller invokes continuation capabilities after login()
MaxInvocations == 2
\* how many pieces the body of the reply to _get_ticket is made of
MaxPieces == 3

-----------------------------------------------------------------------------
(* Values *)

Str(s) == [tag |-> "str", v |-> s]
\* a reference to the request_data dict object itself (a dict stored as a value)
DictRef == [tag |-> "dict", v |-> "request_data"]

EmptyDict == [k \in {} |-> Str("")]
DictSet(d, k, value) == [f \in (DOMAIN d) \cup {k} |-> IF f = k THEN value ELSE d[f]]
DictDel(d, k) == [f \in (DOMAIN d) \ {k} |-> d[f]]

NoResponse == [status_code |-> 0, has_location |-> FALSE]
\* no function of mycqu.auth, and no _get_ticket, has been called
NoCall == [op |-> "None"]
NoParser == [kick |-> FALSE, kick_execution |-> "", cancel_execution |-> ""]
NoPage == [status_code |-> 0, parses |-> FALSE, hidden |-> {}]

\* the caller's timeout: the default of the signature
Timeouts == {10}
Services == {"None", "https://x"}
Usernames == {"u1"}
Passwords == {"p1"}
Answers == {"A1B2"}
\* what the caller's captcha_callback is: absent, or a callable whose return
\* value (an answer or None) is chosen when it is invoked
Callbacks == {"None", "callable"}

LOGIN_URL == "http://authserver.cqu.edu.cn/authserver/login"
LOGOUT_URL == "http://authserver.cqu.edu.cn/authserver/logout"
AUTHSERVER_CAPTCHA_DETERMINE_URL == "http://authserver.cqu.edu.cn/authserver/needCaptcha.html"
AUTHSERVER_CAPTCHA_IMAGE_URL == "http://authserver.cqu.edu.cn/authserver/captcha.html"
\* the url read from a reply's Location header
LocationUrl == "<Location>"

\* a request: timeout is <<t>> when the call passes timeout=t and <<>> when it
\* passes none; redirects is allow_redirects
Request(method, url, params, data, redirects, timeout) ==
    [method |-> method, url |-> url, params |-> params, data |-> data,
     redirects |-> redirects, timeout |-> timeout, ctx |-> ctx]

\* an entry of the log: the request sent, and of its reply the status code
\* and the body text as far as the code looks at them (0 and "" otherwise)
Exchange(req, status, text) == [req |-> req, status |-> status, text |-> text]

-----------------------------------------------------------------------------
(* Provider replies (inputs) *)

StatusCodes == {200, 302, 500}
OptionalHidden == {"captchaResponse", "rememberMe"}

\* a login-page reply: its status, whether its body is a login form the
\* extractor accepts, and which optional hidden inputs the form carries
LoginPages ==
    { [status_code |-> s, parses |-> p, hidden |-> h] :
        s \in StatusCodes, p \in BOOLEAN, h \in SUBSET OptionalHidden }
    \ { pg \in [status_code : StatusCodes, parses : {FALSE},
                hidden : SUBSET OptionalHidden] : pg.hidden # {} }

\* a reply to a POST: a 302 carries a Location header (HTTP redirect), any
\* other reply may or may not
PostReplies ==
    { r \in [status_code : StatusCodes, has_location : BOOLEAN] :
        r.status_code = 302 => r.has_location }

\* a reply to the credential POST: the Location header is read only of a 302
CredentialReplies == { r \in PostReplies : r.status_code # 302 => ~r.has_location }

\* a reply to the kick POST: the code reads nothing of it but the Location
\* header, so one redirect and the two kinds of non-redirect stand for all
KickReplies == { r \in PostReplies : r.status_code \in {200, 302} }

KickTokens == {"e1s2"}
CancelTokens == {"e1s3"}
\* what _LoginedPageParser finds in a non-302 reply to the credential POST
Parsers ==
    { NoParser } \cup
    [kick : {TRUE}, kick_execution : KickTokens, cancel_execution : CancelTokens]

-----------------------------------------------------------------------------
(* Requests *)

\* partial(self.session.get, url=LOGIN_URL, params=..., allow_redirects=False,
\*         timeout=self.timeout)
get_login_page ==
    Request("GET", LOGIN_URL,
            IF self.service = "None" THEN EmptyDict
            ELSE [k \in {"service"} |-> Str(self.service)],
            EmptyDict, FALSE, <<self.timeout>>)

\* Authorizer.logout(session) of the base class: one request to LOGOUT_URL;
\* it takes no timeout argument
logout_request ==
    Request("GET", LOGOUT_URL, EmptyDict, EmptyDict, TRUE, <<>>)

\* logout_authserver(session): delegates to AuthserverAuthorizer.logout
logout_authserver(l) == Append(l, Exchange(logout_request, 0, ""))

-----------------------------------------------------------------------------
(* Termination of a top-level invocation *)

\* the invocation ends with `outcome` ("returned" or the exception raised);
\* resp is the position in the log of the request whose response is
\* returned, 0 when nothing is returned; captured is the parser the kick
\* and cancel closures of a MultiSessionConflict close over
\* an exception message: the text of the f-string and the values formatted
\* into it; NoMessage is an exception raised without arguments
NoMessage == [format |-> "", args |-> <<>>]

Finish(outcome, resp, newlog, captured) ==
    /\ calls' = Append(calls, [ctx |-> ctx, outcome |-> outcome, resp |-> resp,
                               at |-> Len(newlog), parser |-> captured,
                               message |-> NoMessage])
    /\ pc' = "idle"

\* the invocation ends by raising `outcome` with a message
Raise(outcome, message, newlog) ==
    /\ calls' = Append(calls, [ctx |-> ctx, outcome |-> outcome, resp |-> 0,
                               at |-> Len(newlog), parser |-> NoParser,
                               message |-> message])
    /\ pc' = "idle"

-----------------------------------------------------------------------------
(* _get_request_data *)

\* mutant: the force_relogin branch re-fetches without logging out
after_login_page_no_logout(status_code, force_relogin) ==
    IF status_code = 302
    THEN IF ~force_relogin THEN "return_page" ELSE "relogin_fetch"
    ELSE IF status_code # 200 THEN "raise_unknown" ELSE "formdata"

\* mutant: a redirect always forces the re-login, force_relogin or not
after_login_page_always_relogin(status_code, force_relogin) ==
    IF status_code = 302
    THEN "relogin_logout"
    ELSE IF status_code # 200 THEN "raise_unknown" ELSE "formdata"

\* mutant: the status of the first fetch is not checked against 200
after_login_page_unchecked(status_code, force_relogin) ==
    IF status_code = 302
    THEN IF ~force_relogin THEN "return_page" ELSE "relogin_logout"
    ELSE "formdata"

\* lines 62-69: what follows the first fetch of the login page
after_login_page(status_code, force_relogin) ==
    IF status_code = 302
    THEN IF ~force_relogin THEN "return_page" ELSE "relogin_logout"
    ELSE IF status_code # 200 THEN "raise_unknown" ELSE "formdata"

\* _get_formdata(html, username, password) of the page parser: the hidden
\* inputs of the form plus the credentials; defined when the page parses,
\* ParseError otherwise
get_formdata(page, username, password) ==
    [k \in {"execution", "_eventId", "username", "password"} \cup page.hidden |->
        CASE k = "execution" -> Str("e1s1")
          [] k = "_eventId" -> Str("submit")
          [] k = "username" -> Str(username)
          [] k = "password" -> Str(password)
          [] k = "captchaResponse" -> Str("")
          [] OTHER -> Str("scraped")]

\* mutant: keep_longer is ignored, rememberMe is never set
assemble_without_remember(formdata, keep_longer) ==
    DictDel(formdata, "captchaResponse")

\* mutant: a scraped captchaResponse is left in the data
assemble_keep_captcha(formdata, keep_longer) ==
    IF keep_longer THEN DictSet(formdata, "rememberMe", Str("on")) ELSE formdata

\* lines 76-82: rememberMe when keep_longer, drop a scraped captchaResponse
assemble(formdata, keep_longer) ==
    LET withRemember == IF keep_longer
                        THEN DictSet(formdata, "rememberMe", Str("on"))
                        ELSE formdata
    IN  IF "captchaResponse" \in DOMAIN withRemember
        THEN DictDel(withRemember, "captchaResponse")
        ELSE withRemember

Extraction(page) ==
    [at |-> Len(log), status_code |-> page.status_code, ok |-> page.parses]

\* lines 61-69: login_page = get_login_page() and the branch on its status
FetchLoginPage ==
    /\ pc = "get_login_page"
    /\ \E page \in LoginPages :
        LET newlog == Append(log, Exchange(get_login_page, page.status_code, ""))
            next == after_login_page(page.status_code, self.force_relogin)
        IN  /\ log' = newlog
            /\ login_page' = page
            /\ IF next = "raise_unknown"
               THEN Finish("UnknownAuthserverException", 0, newlog, NoParser)
               ELSE pc' = next /\ calls' = calls
    /\ UNCHANGED <<self, ctx, extractions, request_data, login_resp, parser, invoked, captcha>>
    /\ UNCHANGED <<facade, card>>

\* line 66: logout_authserver(self.session) on the force_relogin path
ReloginLogout ==
    /\ pc = "relogin_logout"
    /\ log' = logout_authserver(log)
    /\ pc' = "relogin_fetch"
    /\ UNCHANGED <<self, ctx, extractions, login_page, request_data,
                   login_resp, parser, calls, invoked, captcha>>
    /\ UNCHANGED <<facade, card>>

\* line 67: login_page = get_login_page() after the logout
ReloginFetch ==
    /\ pc = "relogin_fetch"
    /\ \E page \in LoginPages :
        /\ log' = Append(log, Exchange(get_login_page, page.status_code, ""))
        /\ login_page' = page
    /\ pc' = "formdata"
    /\ UNCHANGED <<self, ctx, extractions, request_data, login_resp,
                   parser, calls, invoked, captcha>>
    /\ UNCHANGED <<facade, card>>

\* mutant: the except branch re-fetches without logging out
GetFormdata_no_logout ==
    /\ pc = "formdata"
    /\ extractions' = Append(extractions, Extraction(login_page))
    /\ IF login_page.parses
       THEN /\ request_data' = assemble(
                    get_formdata(login_page, self.username, self.password),
                    self.keep_longer)
            /\ login_page' = login_page
            /\ pc' = "need_captcha"
       ELSE /\ pc' = "parse_fetch"
            /\ UNCHANGED <<request_data, login_page>>
    /\ UNCHANGED <<self, ctx, log, login_resp, parser, calls, invoked, captcha>>
    /\ UNCHANGED <<facade, card>>

\* lines 71-73 and 76-82: the first extraction; on success the data is
\* assembled and returned, on ParseError the except branch is entered
GetFormdata ==
    /\ pc = "formdata"
    /\ extractions' = Append(extractions, Extraction(login_page))
    /\ IF login_page.parses
       THEN /\ request_data' = assemble(
                    get_formdata(login_page, self.username, self.password),
                    self.keep_longer)
            /\ login_page' = login_page
            /\ pc' = "need_captcha"
       ELSE /\ pc' = "parse_logout"
            /\ UNCHANGED <<request_data, login_page>>
    /\ UNCHANGED <<self, ctx, log, login_resp, parser, calls, invoked, captcha>>
    /\ UNCHANGED <<facade, card>>

\* line 74: logout_authserver(self.session) in the except branch
ParseLogout ==
    /\ pc = "parse_logout"
    /\ log' = logout_authserver(log)
    /\ pc' = "parse_fetch"
    /\ UNCHANGED <<self, ctx, extractions, login_page, request_data,
                   login_resp, parser, calls, invoked, captcha>>
    /\ UNCHANGED <<facade, card>>

\* mutant: a second ParseError logs out and fetches again instead of
\* propagating
ParseFetch_retry ==
    /\ pc = "parse_fetch"
    /\ \E page \in LoginPages :
        LET newlog == Append(log, Exchange(get_login_page, page.status_code, ""))
        IN  /\ log' = newlog
            /\ extractions' = Append(extractions,
                    [at |-> Len(newlog), status_code |-> page.status_code,
                     ok |-> page.parses])
            /\ IF page.parses
               THEN /\ request_data' = assemble(
                            get_formdata(page, self.username, self.password),
                            self.keep_longer)
                    /\ pc' = "need_captcha"
               ELSE /\ pc' = "parse_logout"
                    /\ UNCHANGED request_data
    /\ login_page' = NoPage
    /\ UNCHANGED <<self, ctx, login_resp, parser, calls, invoked, captcha>>
    /\ UNCHANGED <<facade, card>>

\* lines 75-82: the re-fetch and the second extraction; a second ParseError
\* leaves _get_request_data
ParseFetch ==
    /\ pc = "parse_fetch"
    /\ \E page \in LoginPages :
        LET newlog == Append(log, Exchange(get_login_page, page.status_code, ""))
        IN  /\ log' = newlog
            /\ extractions' = Append(extractions,
                    [at |-> Len(newlog), status_code |-> page.status_code,
                     ok |-> page.parses])
            /\ IF page.parses
               THEN /\ request_data' = assemble(
                            get_formdata(page, self.username, self.password),
                            self.keep_longer)
                    /\ login_page' = page
                    /\ pc' = "need_captcha"
                    /\ calls' = calls
               ELSE /\ Finish("ParseError", 0, newlog, NoParser)
                    /\ login_page' = NoPage
                    /\ UNCHANGED request_data
    /\ UNCHANGED <<self, ctx, login_resp, parser, invoked, captcha>>
    /\ UNCHANGED <<facade, card>>

-----------------------------------------------------------------------------
(* _need_captcha, _need_captcha_handler, _redirect_to_service, _login *)

\* line 85: self.session.get(AUTHSERVER_CAPTCHA_DETERMINE_URL,
\*                           params={"username": self.username})
need_captcha_request ==
    Request("GET", AUTHSERVER_CAPTCHA_DETERMINE_URL,
            [k \in {"username"} |-> Str(self.username)], EmptyDict, TRUE, <<>>)

\* mutant: the probe's answer is ignored
need_captcha_never(text) == "None"

\* lines 84-88: the image url when the probe's text is "true", None otherwise
need_captcha(text) ==
    IF text = "true" THEN AUTHSERVER_CAPTCHA_IMAGE_URL ELSE "None"

\* lines 90-91: request_data["captchaResponse"] = request_data
need_captcha_handler(answer, data) ==
    DictSet(data, "captchaResponse", DictRef)

\* mutant: the Location is followed with redirects enabled
redirect_to_service_request_following ==
    Request("GET", LocationUrl, EmptyDict, EmptyDict, TRUE, <<>>)

\* line 94: self.session.get(url=login_resp.headers['Location'],
\*                           allow_redirects=False)
redirect_to_service_request ==
    Request("GET", LocationUrl, EmptyDict, EmptyDict, FALSE, <<>>)

\* lines 129-130: self.session.post(url=LOGIN_URL, data=request_data,
\*                                  allow_redirects=False)
login_request(data) ==
    Request("POST", LOGIN_URL, EmptyDict, data, FALSE, <<>>)

\* mutant: the kick closure posts the cancel token
kick_request_crossed(p) ==
    Request("POST", LOGIN_URL, EmptyDict,
            [k \in {"execution", "_eventId"} |->
                IF k = "execution" THEN Str(p.cancel_execution) ELSE Str("continue")],
            FALSE, <<self.timeout>>)

\* lines 103-108: the POST of the kick closure
kick_request(p) ==
    Request("POST", LOGIN_URL, EmptyDict,
            [k \in {"execution", "_eventId"} |->
                IF k = "execution" THEN Str(p.kick_execution) ELSE Str("continue")],
            FALSE, <<self.timeout>>)

\* lines 116-121: the POST of the cancel closure
cancel_request(p) ==
    Request("POST", LOGIN_URL, EmptyDict,
            [k \in {"execution", "_eventId"} |->
                IF k = "execution" THEN Str(p.cancel_execution) ELSE Str("cancel")],
            FALSE, <<self.timeout>>)

\* mutant: kick_others is ignored, a conflict is always raised
after_login_post_never_kick(status_code, p, kick_others) ==
    IF status_code # 302
    THEN IF p.kick THEN "raise_conflict" ELSE "raise_unknown"
    ELSE "redirect"

\* mutant: the message does not tell the status code
unknown_error_message_without_status(status_code) ==
    [format |-> "302 expected when sending login post, but can not find the element span.login_auth_error#msg",
     args |-> <<>>]

\* lines 125-126: the message of the UnknownAuthserverException raised for a
\* non-302 reply without conflict marker
unknown_error_message(status_code) ==
    [format |-> "status code {} is got (302 expected) when sending login post, but can not find the element span.login_auth_error#msg",
     args |-> <<status_code>>]

\* mutant: a conflict is always kicked, kick_others or not
after_login_post_always_kick(status_code, p, kick_others) ==
    IF status_code # 302
    THEN IF p.kick THEN "kick" ELSE "raise_unknown"
    ELSE "redirect"

\* lines 132-134 and 100-126: what follows the reply to the credential POST
after_login_post(status_code, p, kick_others) ==
    IF status_code # 302
    THEN IF p.kick
         THEN IF kick_others THEN "kick" ELSE "raise_conflict"
         ELSE "raise_unknown"
    ELSE "redirect"

\* lines 128-134 with _handle_login_error: the credential POST and the branch
\* on its reply
LoginPost ==
    /\ pc = "login_post"
    /\ \E reply \in CredentialReplies, p \in Parsers :
        LET newlog == Append(log, Exchange(login_request(request_data),
                                             reply.status_code, ""))
            next == after_login_post(reply.status_code, p, self.kick_others)
        IN  /\ reply.status_code = 302 => p = NoParser
            /\ log' = newlog
            /\ login_resp' = reply
            /\ parser' = p
            /\ CASE next = "raise_conflict" -> Finish("MultiSessionConflict", 0, newlog, p)
                 [] next = "raise_unknown" -> Raise("UnknownAuthserverException",
                                                  unknown_error_message(reply.status_code),
                                                  newlog)
                 [] OTHER -> pc' = next /\ calls' = calls
    /\ UNCHANGED <<self, ctx, extractions, login_page, request_data, invoked, captcha>>
    /\ UNCHANGED <<facade, card>>

\* lines 101-108: the kick closure's POST; its reply is handed to
\* _redirect_to_service whatever its status
Kick ==
    /\ pc = "kick"
    /\ \E reply \in KickReplies :
        /\ log' = Append(log, Exchange(kick_request(parser), reply.status_code, ""))
        /\ login_resp' = reply
    /\ pc' = "redirect"
    /\ UNCHANGED <<self, ctx, extractions, login_page, request_data, parser,
                   calls, invoked, captcha>>
    /\ UNCHANGED <<facade, card>>

\* lines 93-94: follow the Location header of login_resp; a reply without
\* that header makes headers['Location'] raise KeyError
RedirectToService ==
    /\ pc = "redirect"
    /\ IF login_resp.has_location
       THEN LET newlog == Append(log, Exchange(redirect_to_service_request, 0, ""))
            IN  /\ log' = newlog
                /\ Finish("returned", Len(newlog), newlog, NoParser)
       ELSE /\ log' = log
            /\ Finish("KeyError", 0, log, NoParser)
    /\ UNCHANGED <<self, ctx, extractions, login_page, request_data, login_resp,
                   parser, invoked, captcha>>
    /\ UNCHANGED <<facade, card>>

\* mutant: the cancel closure sends its POST twice
Cancel_retry ==
    /\ pc = "cancel"
    /\ LET once == Append(log, Exchange(cancel_request(parser), 0, ""))
           newlog == Append(once, Exchange(cancel_request(parser), 0, ""))
       IN  /\ log' = newlog
           /\ Finish("returned", Len(newlog), newlog, NoParser)
    /\ UNCHANGED <<self, ctx, extractions, login_page, request_data, login_resp,
                   parser, invoked, captcha>>
    /\ UNCHANGED <<facade, card>>

\* lines 114-121: the cancel closure
Cancel ==
    /\ pc = "cancel"
    /\ LET newlog == Append(log, Exchange(cancel_request(parser), 0, ""))
       IN  /\ log' = newlog
           /\ Finish("returned", Len(newlog), newlog, NoParser)
    /\ UNCHANGED <<self, ctx, extractions, login_page, request_data, login_resp,
                   parser, invoked, captcha>>
    /\ UNCHANGED <<facade, card>>

-----------------------------------------------------------------------------
(* Authorizer.login: the template method of the base class *)

\* the fetch of the challenge image handed to the resolver
captcha_image_request ==
    Request("GET", AUTHSERVER_CAPTCHA_IMAGE_URL, EmptyDict, EmptyDict, TRUE,
            <<self.timeout>>)

\* the hop to the service of an already authenticated session
service_hop_request ==
    Request("GET", LocationUrl, EmptyDict, EmptyDict, FALSE, <<self.timeout>>)

\* step 1, first bullet: _get_request_data returned the redirect response;
\* it is returned, after one hop to the service if one was requested
ReturnPage ==
    /\ pc = "return_page"
    /\ IF self.service = "None"
       THEN /\ log' = log
            /\ Finish("returned", Len(log), log, NoParser)
       ELSE LET newlog == Append(log, Exchange(service_hop_request, 0, ""))
            IN  /\ log' = newlog
                /\ Finish("returned", Len(newlog), newlog, NoParser)
    /\ login_page' = NoPage
    /\ UNCHANGED <<self, ctx, extractions, request_data, login_resp, parser,
                   invoked, captcha>>
    /\ UNCHANGED <<facade, card>>

\* step 4: the CAPTCHA-requirement probe
NeedCaptchaProbe ==
    /\ pc = "need_captcha"
    /\ \E text \in {"true", "false", ""} :
        /\ log' = Append(log, Exchange(need_captcha_request, 0, text))
        /\ pc' = IF need_captcha(text) = "None" THEN "login_post" ELSE "captcha"
    /\ login_page' = NoPage
    /\ UNCHANGED <<self, ctx, extractions, request_data, login_resp,
                   parser, calls, invoked, captcha>>
    /\ UNCHANGED <<facade, card>>

\* step 4, CAPTCHA required: fetch the image; without a resolver, or when
\* it returns None, raise NeedCaptcha; otherwise inject the answer and go on
ResolveCaptcha ==
    /\ pc = "captcha"
    /\ LET newlog == Append(log, Exchange(captcha_image_request, 0, ""))
       IN  /\ log' = newlog
           /\ \E answer \in Answers \cup {"None"} :
                /\ self.captcha_callback = "None" => answer = "None"
                /\ IF answer = "None"
                   THEN /\ Finish("NeedCaptcha", 0, newlog, NoParser)
                        /\ UNCHANGED <<request_data, captcha>>
                   ELSE /\ request_data' = need_captcha_handler(answer, request_data)
                        /\ captcha' = answer
                        /\ pc' = "login_post"
                        /\ calls' = calls
    /\ UNCHANGED <<self, ctx, extractions, login_page, login_resp, parser, invoked>>
    /\ UNCHANGED <<facade, card>>

-----------------------------------------------------------------------------
(* The caller resolving a continuation after login() raised it *)

LoginDone == Len(calls) >= 1
LoginOutcome == IF LoginDone THEN calls[1].outcome ELSE "running"

\* NeedCaptcha.after_captcha(answer): handler, then _login
AfterCaptcha ==
    /\ pc = "idle"
    /\ LoginOutcome = "NeedCaptcha"
    /\ invoked < MaxInvocations
    /\ \E answer \in Answers :
        /\ request_data' = need_captcha_handler(answer, request_data)
        /\ captcha' = answer
    /\ ctx' = [kind |-> "after_captcha", of |-> 1]
    /\ pc' = "login_post"
    /\ invoked' = invoked + 1
    /\ UNCHANGED <<self, log, extractions, login_page, login_resp, parser, calls>>
    /\ UNCHANGED <<facade, card>>

\* MultiSessionConflict.kick() of the conflict raised by invocation i: the
\* closure runs with the parser it closed over
InvokeKick ==
    /\ pc = "idle"
    /\ invoked < MaxInvocations
    /\ \E i \in 1..Len(calls) :
        /\ calls[i].outcome = "MultiSessionConflict"
        /\ ctx' = [kind |-> "kick", of |-> i]
        /\ parser' = calls[i].parser
    /\ pc' = "kick"
    /\ invoked' = invoked + 1
    /\ UNCHANGED <<self, log, extractions, login_page, request_data, login_resp,
                   calls, captcha>>
    /\ UNCHANGED <<facade, card>>

\* MultiSessionConflict.cancel() of the conflict raised by invocation i
InvokeCancel ==
    /\ pc = "idle"
    /\ invoked < MaxInvocations
    /\ \E i \in 1..Len(calls) :
        /\ calls[i].outcome = "MultiSessionConflict"
        /\ ctx' = [kind |-> "cancel", of |-> i]
        /\ parser' = calls[i].parser
    /\ pc' = "cancel"
    /\ invoked' = invoked + 1
    /\ UNCHANGED <<self, log, extractions, login_page, request_data, login_resp,
                   calls, captcha>>
    /\ UNCHANGED <<facade, card>>

-----------------------------------------------------------------------------
(* Specification *)

Init ==
    /\ self \in [username : Usernames, password : Passwords, service : Services,
                 timeout : Timeouts, force_relogin : BOOLEAN,
                 captcha_callback : Callbacks, keep_longer : BOOLEAN,
                 kick_others : BOOLEAN]
    /\ pc = "get_login_page"
    /\ ctx = [kind |-> "login", of |-> 0]
    /\ log = <<>>
    /\ extractions = <<>>
    /\ login_page = NoPage
    /\ request_data = EmptyDict
    /\ login_resp = NoResponse
    /\ parser = NoParser
    /\ calls = <<>>
    /\ invoked = 0
    /\ captcha = "None"
    /\ facade = NoCall
    /\ card = NoCall

Next ==
    \/ FetchLoginPage
    \/ ReloginLogout
    \/ ReloginFetch
    \/ GetFormdata
    \/ ParseLogout
    \/ ParseFetch
    \/ ReturnPage
    \/ NeedCaptchaProbe
    \/ ResolveCaptcha
    \/ LoginPost
    \/ Kick
    \/ RedirectToService
    \/ Cancel
    \/ AfterCaptcha
    \/ InvokeKick
    \/ InvokeCancel

Spec == Init /\ [][Next]_vars

-----------------------------------------------------------------------------
(* Reading the log *)

IsLoginPageGet(e) == e.req.method = "GET" /\ e.req.url = LOGIN_URL
IsLogout(e) == e.req.url = LOGOUT_URL
IsCaptchaProbe(e) == e.req.url = AUTHSERVER_CAPTCHA_DETERMINE_URL
IsLoginPost(e) == e.req.method = "POST" /\ e.req.url = LOGIN_URL
IsCredentialPost(e) == IsLoginPost(e) /\ "username" \in DOMAIN e.req.data
IsResolutionPost(e) == IsLoginPost(e) /\ "username" \notin DOMAIN e.req.data
IsKickPost(e) == IsResolutionPost(e) /\ e.req.data["_eventId"] = Str("continue")
IsCancelPost(e) == IsResolutionPost(e) /\ e.req.data["_eventId"] = Str("cancel")
IsLocationGet(e) == e.req.method = "GET" /\ e.req.url = LocationUrl

\* positions of the log entries that satisfy P
Where(P(_)) == { i \in 1..Len(log) : P(log[i]) }
\* the same, among the requests sent by the login() call itself
InLogin(P(_)) == { i \in 1..Len(log) : log[i].req.ctx.kind = "login" /\ P(log[i]) }

\* the status code the first fetch of the login page answered
FirstFetchStatus == IF Len(log) >= 1 THEN log[1].status ELSE 0

-----------------------------------------------------------------------------
(* C1: force_relogin and the logout *)

LogoutBeforeEverySubmission ==
    \A i \in Where(IsCredentialPost) : \E j \in 1..(i - 1) : IsLogout(log[j])

\* C1 as claimed: with force_relogin=true a logout request precedes every
\* credential POST, whether the first login-page fetch answered 302 or 200
C1_LogoutBeforeAnySubmission ==
    self.force_relogin => LogoutBeforeEverySubmission

\* C1 amended: with force_relogin=true and a first login-page fetch that
\* answered 302, a logout request precedes every credential POST
C1_LogoutBeforeSubmissionAfterRedirect ==
    (self.force_relogin /\ FirstFetchStatus = 302) => LogoutBeforeEverySubmission

\* a forced re-login of an authenticated session has submitted credentials
C1_Witness ==
    /\ self.force_relogin
    /\ FirstFetchStatus = 302
    /\ Where(IsCredentialPost) # {}

-----------------------------------------------------------------------------
(* C2: the CAPTCHA answer in the submitted request *)

\* the step that hands an answer to _need_captcha_handler
InjectionStep == pc \in {"captcha", "idle"} /\ pc' = "login_post"
\* the step that sends the credential POST
SubmissionStep == pc = "login_post" /\ log' # log

\* C2 as claimed: the injection sets captchaResponse to the resolved answer
\* and leaves every other field of the request data as it was, and the
\* credential POST sent next carries exactly that data
C2_ResolvedAnswerSubmitted ==
    [][ /\ InjectionStep =>
            request_data' = DictSet(request_data, "captchaResponse", Str(captcha'))
        /\ (SubmissionStep /\ captcha # "None") =>
            /\ log'[Len(log')].req.data = request_data
            /\ log'[Len(log')].req.data["captchaResponse"] = Str(captcha)
      ]_vars

-----------------------------------------------------------------------------
(* C3: the requests of one login() call *)

\* C3 as claimed: one login() call sends at most 2 login-page GETs, at most
\* 1 CAPTCHA-requirement probe and at most 2 POSTs to the login endpoint
C3_RequestBudget ==
    /\ Cardinality(InLogin(IsLoginPageGet)) <= 2
    /\ Cardinality(InLogin(IsCaptchaProbe)) <= 1
    /\ Cardinality(InLogin(IsLoginPost)) <= 2

\* C3 amended: one login() call sends at most 3 login-page GETs (the first
\* fetch, the re-fetch after the forced logout and the re-fetch after a
\* failed extraction), at most 1 probe and at most 2 POSTs to the login
\* endpoint
C3_RequestBudgetThreeFetches ==
    /\ Cardinality(InLogin(IsLoginPageGet)) <= 3
    /\ Cardinality(InLogin(IsCaptchaProbe)) <= 1
    /\ Cardinality(InLogin(IsLoginPost)) <= 2

\* a login() call that used the whole budget
C3_Witness ==
    /\ Cardinality(InLogin(IsLoginPageGet)) = 3
    /\ Cardinality(InLogin(IsCaptchaProbe)) = 1
    /\ Cardinality(InLogin(IsLoginPost)) = 2

-----------------------------------------------------------------------------
(* C4: invoking the capabilities of a conflict *)

\* the invocations that raised MultiSessionConflict: each is one ConflictContext
Conflicts == { c \in 1..Len(calls) : calls[c].outcome = "MultiSessionConflict" }
\* the conflict-resolution POSTs sent by the capabilities of conflict c
ResolutionsOf(c) ==
    { j \in Where(IsResolutionPost) :
        log[j].req.ctx.kind \in {"kick", "cancel"} /\ log[j].req.ctx.of = c }
\* the finished invocations of the capabilities of conflict c
InvocationsOf(c) ==
    { k \in 1..Len(calls) :
        calls[k].ctx.kind \in {"kick", "cancel"} /\ calls[k].ctx.of = c }

-----------------------------------------------------------------------------
(* C5: the timeout of the requests *)

\* C5 as claimed: every login-page GET, CAPTCHA-requirement GET, credential
\* POST, kick/cancel POST and Location GET is sent with the caller's timeout
C5_EveryRequestTimed ==
    \A i \in 1..Len(log) :
        (\/ IsLoginPageGet(log[i])
         \/ IsCaptchaProbe(log[i])
         \/ IsLoginPost(log[i])
         \/ IsLocationGet(log[i]))
        => log[i].req.timeout = <<self.timeout>>

-----------------------------------------------------------------------------
(* C6: an authenticated session without force_relogin *)

\* C6: when the first login-page fetch answers 302 and force_relogin is
\* false, login() sends no credential POST and no logout, never runs the
\* form extractor, and ends by returning a response
C6_AuthenticatedReturnsWithoutSubmission ==
    (FirstFetchStatus = 302 /\ ~self.force_relogin) =>
        /\ Where(IsLoginPost) = {}
        /\ Where(IsLogout) = {}
        /\ extractions = <<>>
        /\ pc \in {"return_page", "idle"}
        /\ LoginDone => (LoginOutcome = "returned" /\ Len(calls) = 1)

\* login() has returned for an authenticated session
C6_Witness ==
    /\ FirstFetchStatus = 302
    /\ ~self.force_relogin
    /\ LoginDone

-----------------------------------------------------------------------------
(* C7: kick_others on a conflict *)

\* the last credential POST was answered by a conflict page and the
\* invocation that sent it has ended
ConflictHandled == pc = "idle" /\ parser.kick /\ self.kick_others
LastCall == calls[Len(calls)]

\* C7 as claimed: with kick_others=true a conflict page always ends in a
\* returned response, whatever the provider replies to the kick POST
C7_KickAlwaysSucceeds ==
    /\ \A c \in 1..Len(calls) : self.kick_others => calls[c].outcome # "MultiSessionConflict"
    /\ ConflictHandled => LastCall.outcome = "returned"

\* C7 amended: with kick_others=true a conflict page never raises
\* MultiSessionConflict; the kick action is sent, and when its reply carries
\* a Location header the response of the GET to that location is returned,
\* when it carries none the call fails with KeyError
C7_KickThenFollowLocation ==
    /\ \A c \in 1..Len(calls) : self.kick_others => calls[c].outcome # "MultiSessionConflict"
    /\ ConflictHandled =>
        IF login_resp.has_location
        THEN /\ LastCall.outcome = "returned"
             /\ LastCall.resp = Len(log)
             /\ IsLocationGet(log[Len(log)])
             /\ IsKickPost(log[Len(log) - 1])
             /\ log[Len(log) - 1].req.data["execution"] = Str(parser.kick_execution)
             /\ IsCredentialPost(log[Len(log) - 2])
        ELSE /\ LastCall.outcome = "KeyError"
             /\ IsKickPost(log[Len(log)])
             /\ IsCredentialPost(log[Len(log) - 1])

\* a conflict was kicked and the redirect of the kick followed
C7_Witness ==
    /\ ConflictHandled
    /\ login_resp.has_location
    /\ LastCall.ctx.kind = "login"

-----------------------------------------------------------------------------
(* C8: CAPTCHA required and no answer *)

\* the CAPTCHA-requirement probe of this login() reported "required"
ProbeRequired == \E i \in InLogin(IsCaptchaProbe) : log[i].text = "true"

\* C8: when the probe reports that CAPTCHA is required and no answer has
\* been supplied (no resolver, or it returned None, and no resumption yet),
\* no credential POST has been sent, the conflict check has not run, and
\* login() ends by raising NeedCaptcha; nothing login() itself sends is a
\* credential POST when it raises NeedCaptcha
C8_NeedCaptchaBeforeSubmission ==
    /\ (ProbeRequired /\ captcha = "None") =>
            /\ Where(IsLoginPost) = {}
            /\ parser = NoParser
            /\ pc \in {"captcha", "idle"}
            /\ LoginDone => LoginOutcome = "NeedCaptcha"
    /\ LoginOutcome = "NeedCaptcha" =>
            /\ ProbeRequired
            /\ InLogin(IsLoginPost) = {}
            /\ \A i \in 1..calls[1].at : ~IsLoginPost(log[i])

\* login() raised NeedCaptcha and the caller has not resumed it
C8_Witness ==
    /\ LoginOutcome = "NeedCaptcha"
    /\ captcha = "None"
    /\ ProbeRequired

-----------------------------------------------------------------------------
(* C9: resuming NeedCaptcha against the answer known up front *)

\* the data a login() whose resolver returned the answer up front submits,
\* as the claim states it: the assembled fields plus the answer
UpfrontSubmission(assembled, answer) ==
    DictSet(assembled, "captchaResponse", Str(answer))

\* C9 as claimed: the credential POST of a resumed NeedCaptcha carries the
\* fields and values of the up-front submission, the CAPTCHA-answer field
\* equal to the answer included
C9_ResumeSubmitsAsUpfront ==
    [][ (SubmissionStep /\ ctx.kind = "after_captcha") =>
            log'[Len(log')].req.data =
                UpfrontSubmission(DictDel(request_data, "captchaResponse"), captcha)
      ]_vars

-----------------------------------------------------------------------------
(* C10: one logout and one retry after a failed extraction *)

\* the log after position a holds a logout, then a login-page GET, and no
\* other logout or login-page GET
OneLogoutThenRefetch(a) ==
    /\ Len(log) >= a + 1 => IsLogout(log[a + 1])
    /\ Len(log) >= a + 2 => IsLoginPageGet(log[a + 2])
    /\ \A i \in (a + 3)..Len(log) : ~IsLogout(log[i]) /\ ~IsLoginPageGet(log[i])

\* C10: a failed first extraction is followed by exactly one logout and then
\* exactly one re-fetch; a second failed extraction propagates ParseError
\* with no further request, and there is never a third extraction
C10_OneRetryAfterParseError ==
    /\ Len(extractions) <= 2
    /\ (Len(extractions) >= 1 /\ extractions[1].ok) => Len(extractions) = 1
    /\ (Len(extractions) >= 1 /\ ~extractions[1].ok) =>
        /\ OneLogoutThenRefetch(extractions[1].at)
        /\ pc \notin {"parse_logout", "parse_fetch"} =>
                /\ Len(log) >= extractions[1].at + 2
                /\ Len(extractions) = 2
        /\ Len(extractions) = 2 =>
                /\ extractions[2].at = extractions[1].at + 2
                /\ ~extractions[2].ok =>
                        /\ LoginOutcome = "ParseError"
                        /\ Len(log) = extractions[2].at
                        /\ pc = "idle"
                        /\ Len(calls) = 1

\* the extraction failed on the fetched page and again on the re-fetched one
C10_Witness ==
    /\ Len(extractions) = 2
    /\ ~extractions[1].ok
    /\ ~extractions[2].ok
    /\ LoginOutcome = "ParseError"

-----------------------------------------------------------------------------
(* C11: a conflict without kick_others *)

\* the invocation that ended last is login() or a resumption, so `parser`
\* is what _handle_login_error found in the reply to its credential POST
SubmissionEnded ==
    pc = "idle" /\ LoginDone /\ calls[Len(calls)].ctx.kind \in {"login", "after_captcha"}

\* C11: with kick_others=false a conflict reply to the credential POST makes
\* the invocation raise MultiSessionConflict carrying one kick and one cancel
\* capability (the two tokens of that reply), and when it is raised nothing
\* has been sent after the credential POST: every kick or cancel POST of the
\* conflict comes later, from the caller
C11_ConflictRaisedUnresolved ==
    /\ (SubmissionEnded /\ parser.kick /\ ~self.kick_others) =>
            /\ calls[Len(calls)].outcome = "MultiSessionConflict"
            /\ calls[Len(calls)].parser = parser
    /\ \A c \in Conflicts :
            /\ ~self.kick_others
            /\ calls[c].parser.kick
            /\ calls[c].parser.kick_execution \in KickTokens
            /\ calls[c].parser.cancel_execution \in CancelTokens
            /\ IsCredentialPost(log[calls[c].at])
            /\ log[calls[c].at].status # 302
            /\ \A j \in ResolutionsOf(c) : j > calls[c].at
    /\ ~self.kick_others =>
            \A j \in Where(IsResolutionPost) : log[j].req.ctx.kind \in {"kick", "cancel"}

\* login() raised MultiSessionConflict and the caller has not acted on it
C11_Witness ==
    /\ LoginOutcome = "MultiSessionConflict"
    /\ invoked = 0
    /\ Where(IsResolutionPost) = {}

-----------------------------------------------------------------------------
(* C12: the status of a login-page fetch *)

\* the login-page fetches whose answer is neither 302 nor 200
OddFetches == { i \in Where(IsLoginPageGet) : log[i].status \notin {200, 302} }

\* C12 as claimed: any login-page fetch answering neither 302 nor 200 makes
\* login() fail with UnknownAuthserverException, and the extractor only ever
\* runs on a page fetched with status 200
C12_EveryFetchChecked ==
    /\ (OddFetches # {} /\ LoginDone) => LoginOutcome = "UnknownAuthserverException"
    /\ \A k \in 1..Len(extractions) : extractions[k].status_code = 200

\* C12 amended: when the first login-page fetch answers neither 302 nor 200,
\* login() fails with UnknownAuthserverException and sends and extracts
\* nothing more; the extractor runs on the first page only when it answered
\* 200 (a page re-fetched after a logout is extracted whatever its status)
C12_FirstFetchChecked ==
    /\ (Len(log) >= 1 /\ FirstFetchStatus \notin {200, 302}) =>
            /\ LoginOutcome = "UnknownAuthserverException"
            /\ Len(log) = 1
            /\ extractions = <<>>
            /\ pc = "idle"
            /\ Len(calls) = 1
    /\ \A k \in 1..Len(extractions) :
            extractions[k].at = 1 => extractions[k].status_code = 200
    /\ LoginOutcome = "UnknownAuthserverException" =>
            \/ (Len(log) = 1 /\ FirstFetchStatus \notin {200, 302})
            \/ IsCredentialPost(log[calls[1].at])

\* the first fetch answered 500 and login() has ended
C12_Witness ==
    /\ FirstFetchStatus = 500
    /\ LoginDone

-----------------------------------------------------------------------------
(* C13: captchaResponse in the assembled data *)

\* C13: the data _get_request_data returns never holds captchaResponse,
\* whatever was scraped, and as long as no CAPTCHA answer has been supplied
\* neither the request data nor any credential POST sent holds it
C13_NoCaptchaFieldWithoutAnswer ==
    /\ pc = "need_captcha" => "captchaResponse" \notin DOMAIN request_data
    /\ captcha = "None" =>
            /\ "captchaResponse" \notin DOMAIN request_data
            /\ \A i \in Where(IsCredentialPost) :
                    "captchaResponse" \notin DOMAIN log[i].req.data

\* the page scraped held a captchaResponse input and the data was assembled
C13_Witness ==
    /\ pc = "need_captcha"
    /\ "captchaResponse" \in login_page.hidden
    /\ "captchaResponse" \notin DOMAIN request_data
    /\ "username" \in DOMAIN request_data

-----------------------------------------------------------------------------
(* C14: a 302 reply to the credential POST *)

\* the invocation that ended with the exchange at position i of the log
EndedAt(i) == { c \in 1..Len(calls) : calls[c].at = i }

-----------------------------------------------------------------------------
(* C15: a non-302 reply without conflict marker *)

\* the invocations ended by the UnknownAuthserverException of
\* _handle_login_error
UnknownAfterPost ==
    { c \in 1..Len(calls) : /\ calls[c].outcome = "UnknownAuthserverException"
                            /\ calls[c].at >= 1
                            /\ IsCredentialPost(log[calls[c].at]) }

-----------------------------------------------------------------------------
(* C17: what the kick and the cancel capability send *)

\* the finished invocations of a kick and of a cancel capability
KickCalls == { k \in 1..Len(calls) : calls[k].ctx.kind = "kick" }
CancelCalls == { k \in 1..Len(calls) : calls[k].ctx.kind = "cancel" }

\* the positions in the log of the requests invocation k sent: a capability
\* is invoked after the invocation before it has ended
Segment(k) == (calls[k - 1].at + 1) .. calls[k].at

\* the form a capability posts: a continuation token and an event
ResolutionForm(token, event) ==
    [f \in {"execution", "_eventId"} |->
        IF f = "execution" THEN Str(token) ELSE Str(event)]

\* the first request of kick invocation k is the POST to the login endpoint
\* of the kick token of its conflict with _eventId=continue
KickPosts(k) ==
    LET first == calls[k - 1].at + 1
    IN  /\ first \in Segment(k)
        /\ log[first].req.method = "POST"
        /\ log[first].req.url = LOGIN_URL
        /\ log[first].req.data =
                ResolutionForm(calls[calls[k].ctx.of].parser.kick_execution, "continue")

\* kick invocation k then sent one GET to the Location and returned its
\* response
KickFollows(k) ==
    LET first == calls[k - 1].at + 1
    IN  /\ Segment(k) = {first, first + 1}
        /\ IsLocationGet(log[first + 1])
        /\ calls[k].outcome = "returned"
        /\ calls[k].resp = first + 1

\* cancel invocation k sent one request, the POST of the cancel token of its
\* conflict with _eventId=cancel, and returned its response
CancelPosts(k) ==
    LET first == calls[k - 1].at + 1
    IN  /\ Segment(k) = {first}
        /\ log[first].req.method = "POST"
        /\ log[first].req.url = LOGIN_URL
        /\ log[first].req.data =
                ResolutionForm(calls[calls[k].ctx.of].parser.cancel_execution, "cancel")
        /\ calls[k].outcome = "returned"
        /\ calls[k].resp = first

\* C17 as claimed: every kick sends its POST and then returns the response
\* of one GET to that POST's Location; every cancel sends its one POST only
C17_CapabilitiesComplete ==
    /\ \A k \in KickCalls : KickPosts(k) /\ KickFollows(k)
    /\ \A k \in CancelCalls : CancelPosts(k)

\* C17 amended: kick sends one POST of the kick token with _eventId=continue
\* and then, when the reply carries a Location header, returns the response
\* of one GET to it, and fails with KeyError without a further request when
\* it carries none; cancel sends one POST of the cancel token with
\* _eventId=cancel and nothing else; no request of a capability is a
\* credential submission or carries the other capability's token or event
C17_CapabilitiesKeepApart ==
    /\ \A k \in KickCalls :
            /\ KickPosts(k)
            /\ \/ KickFollows(k)
               \/ /\ calls[k].outcome = "KeyError"
                  /\ Cardinality(Segment(k)) = 1
    /\ \A k \in CancelCalls : CancelPosts(k)
    /\ \A i \in 1..Len(log) :
            /\ log[i].req.ctx.kind = "cancel" =>
                    /\ IsCancelPost(log[i])
                    /\ log[i].req.data["execution"] \in
                            { Str(t) : t \in CancelTokens }
            /\ log[i].req.ctx.kind = "kick" =>
                    \/ /\ IsKickPost(log[i])
                       /\ log[i].req.data["execution"] \in
                            { Str(t) : t \in KickTokens }
                    \/ /\ IsLocationGet(log[i])
                       /\ i > 1
                       /\ IsKickPost(log[i - 1])
                       /\ log[i - 1].req.ctx = log[i].req.ctx

\* one conflict had its kick invoked, which followed the Location, and its
\* cancel invoked
C17_Witness ==
    /\ pc = "idle"
    /\ \E k \in KickCalls, j \in CancelCalls :
            /\ calls[k].ctx.of = calls[j].ctx.of
            /\ calls[k].outcome = "returned"

-----------------------------------------------------------------------------
(* C18: keep_longer and rememberMe *)

\* _get_request_data has just returned the assembled data of `login_page`
Assembled == pc = "need_captcha" /\ ctx.kind = "login"

\* C18: the data _get_request_data returns holds rememberMe=on whenever
\* keep_longer is true; when it is false the data holds a rememberMe entry
\* only if the page scraped had one, with the scraped value; this is so for
\* the first page and for the page fetched again after a failed extraction,
\* and every credential POST carries the entry as it was assembled
C18_RememberMeFollowsKeepLonger ==
    /\ Assembled =>
            IF self.keep_longer
            THEN /\ "rememberMe" \in DOMAIN request_data
                 /\ request_data["rememberMe"] = Str("on")
            ELSE /\ "rememberMe" \in DOMAIN request_data <=>
                        "rememberMe" \in login_page.hidden
                 /\ "rememberMe" \in DOMAIN request_data =>
                        request_data["rememberMe"] = Str("scraped")
    /\ \A i \in Where(IsCredentialPost) :
            IF self.keep_longer
            THEN /\ "rememberMe" \in DOMAIN log[i].req.data
                 /\ log[i].req.data["rememberMe"] = Str("on")
            ELSE "rememberMe" \in DOMAIN log[i].req.data =>
                        log[i].req.data["rememberMe"] = Str("scraped")

\* keep_longer is set, the first extraction failed, and the data was
\* assembled from the page fetched again, which had no rememberMe input
C18_Witness ==
    /\ Assembled
    /\ self.keep_longer
    /\ Len(extractions) = 2
    /\ "rememberMe" \notin login_page.hidden
    /\ request_data["rememberMe"] = Str("on")

-----------------------------------------------------------------------------
(* mycqu.auth: the functions of the package and the deprecated wrappers *)

\* the variables of the login dialogue
authVars == <<self, pc, ctx, log, extractions, login_page, request_data,
              login_resp, parser, calls, invoked, captcha>>

\* no Authorizer has been constructed and nothing was sent
NoAuthorizer ==
    /\ self = [username |-> "", password |-> "", service |-> "None",
               timeout |-> 0, force_relogin |-> FALSE,
               captcha_callback |-> "None", keep_longer |-> FALSE,
               kick_others |-> FALSE]
    /\ pc = "idle"
    /\ ctx = [kind |-> "login", of |-> 0]
    /\ log = <<>>
    /\ extractions = <<>>
    /\ login_page = NoPage
    /\ request_data = EmptyDict
    /\ login_resp = NoResponse
    /\ parser = NoParser
    /\ calls = <<>>
    /\ invoked = 0
    /\ captcha = "None"

Sessions == {"session1", "session2"}

\* how a Python call ends: with a value, or with an exception
Return(value) == [kind |-> "return", value |-> value]
Raises(exception) == [kind |-> "raise", value |-> exception]

\* what a classmethod of an Authorizer may answer
BackendAnswers(op) ==
    CASE op = "is_logined" -> { Return("True"), Return("False") }
      [] op = "logout" -> { Return("None") }
      [] op = "access_service" -> { Return("Response"), Raises("NotLogined") }
      [] op = "login" -> { Return("Response"), Raises("NeedCaptcha"),
                           Raises("MultiSessionConflict"),
                           Raises("IncorrectLoginCredentials") }

\* one call of a classmethod of an Authorizer and its answer
Invocation(backend, op, args, answer) ==
    [backend |-> backend, op |-> op, args |-> args, answer |-> answer]

\* use_sso as the caller passes it: <<>> when left out
UseSsoGiven == { <<>>, <<TRUE>>, <<FALSE>> }
\* the parameter's value: `use_sso: bool = True`
use_sso_parameter(given) == IF given = <<>> THEN TRUE ELSE given[1]

\* `return f(...)`: the call ends as f does
returned(answer) == answer
\* `f(...)` as the last statement: the value is dropped, an exception is not
dropped(answer) == IF answer.kind = "raise" THEN answer ELSE Return("None")

\* mutant: the Authorizers are picked the other way round
backend_of_swapped(use_sso) ==
    IF use_sso THEN "AuthserverAuthorizer" ELSE "SSOAuthorizer"

\* `SSOAuthorizer.f(...) if use_sso else AuthserverAuthorizer.f(...)`
backend_of(use_sso) ==
    IF use_sso THEN "SSOAuthorizer" ELSE "AuthserverAuthorizer"

\* __init__.py line 25
is_logined(session, use_sso, answer) ==
    [op |-> "is_logined",
     args |-> [session |-> session, use_sso |-> use_sso],
     invocations |-> << Invocation(backend_of(use_sso), "is_logined",
                                   [session |-> session], answer) >>,
     result |-> returned(answer)]

\* __init__.py line 36
logout(session, use_sso, answer) ==
    [op |-> "logout",
     args |-> [session |-> session, use_sso |-> use_sso],
     invocations |-> << Invocation(backend_of(use_sso), "logout",
                                   [session |-> session], answer) >>,
     result |-> dropped(answer)]

\* __init__.py line 52
access_service(session, service, use_sso, answer) ==
    [op |-> "access_service",
     args |-> [session |-> session, service |-> service, use_sso |-> use_sso],
     invocations |-> << Invocation(backend_of(use_sso), "access_service",
                                   [session |-> session, service |-> service],
                                   answer) >>,
     result |-> returned(answer)]

\* __init__.py lines 101-102
login(session, username, password, service, timeout, force_relogin, captcha_callback, keep_longer, kick_others, use_sso, answer) ==
    [op |-> "login",
     args |-> [session |-> session, username |-> username,
               password |-> password, service |-> service,
               timeout |-> timeout, force_relogin |-> force_relogin,
               captcha_callback |-> captcha_callback,
               keep_longer |-> keep_longer, kick_others |-> kick_others,
               use_sso |-> use_sso],
     invocations |-> << Invocation(backend_of(use_sso), "login",
                            [session |-> session, username |-> username,
                             password |-> password, service |-> service,
                             timeout |-> timeout,
                             force_relogin |-> force_relogin,
                             captcha_callback |-> captcha_callback,
                             keep_longer |-> keep_longer,
                             kick_others |-> kick_others],
                            answer) >>,
     result |-> returned(answer)]

\* _authserver.py line 26
is_authserver_logined(session, answer) ==
    [op |-> "is_authserver_logined",
     args |-> [session |-> session],
     invocations |-> << Invocation("AuthserverAuthorizer", "is_logined",
                                   [session |-> session], answer) >>,
     result |-> returned(answer)]

\* _authserver.py line 49: the call is a statement, nothing is returned
access_authserver_service(session, service, answer) ==
    [op |-> "access_authserver_service",
     args |-> [session |-> session, service |-> service],
     invocations |-> << Invocation("AuthserverAuthorizer", "access_service",
                                   [session |-> session, service |-> service],
                                   answer) >>,
     result |-> dropped(answer)]

IsLogined ==
    /\ \E session \in Sessions, given \in UseSsoGiven,
          answer \in BackendAnswers("is_logined") :
            facade' = is_logined(session, use_sso_parameter(given), answer)
    /\ UNCHANGED <<authVars, card>>

Logout ==
    /\ \E session \in Sessions, given \in UseSsoGiven,
          answer \in BackendAnswers("logout") :
            facade' = logout(session, use_sso_parameter(given), answer)
    /\ UNCHANGED <<authVars, card>>

AccessService ==
    /\ \E session \in Sessions, service \in Services \ {"None"},
          given \in UseSsoGiven, answer \in BackendAnswers("access_service") :
            facade' = access_service(session, service,
                                     use_sso_parameter(given), answer)
    /\ UNCHANGED <<authVars, card>>

Login ==
    /\ \E session \in Sessions, username \in Usernames, password \in Passwords,
          service \in Services, timeout \in Timeouts, force_relogin \in BOOLEAN,
          captcha_callback \in Callbacks, keep_longer \in BOOLEAN,
          kick_others \in BOOLEAN, given \in UseSsoGiven,
          answer \in BackendAnswers("login") :
            facade' = login(session, username, password, service, timeout,
                            force_relogin, captcha_callback, keep_longer,
                            kick_others, use_sso_parameter(given), answer)
    /\ UNCHANGED <<authVars, card>>

IsAuthserverLogined ==
    /\ \E session \in Sessions, answer \in BackendAnswers("is_logined") :
            facade' = is_authserver_logined(session, answer)
    /\ UNCHANGED <<authVars, card>>

AccessAuthserverService ==
    /\ \E session \in Sessions, service \in Services \ {"None"},
          answer \in BackendAnswers("access_service") :
            facade' = access_authserver_service(session, service, answer)
    /\ UNCHANGED <<authVars, card>>

InitFacade ==
    /\ NoAuthorizer
    /\ facade = NoCall
    /\ card = NoCall

NextFacade ==
    \/ IsLogined
    \/ Logout
    \/ AccessService
    \/ Login
    \/ IsAuthserverLogined
    \/ AccessAuthserverService

SpecFacade == InitFacade /\ [][NextFacade]_vars

-----------------------------------------------------------------------------
(* C16: the deprecated wrappers *)

\* the last call was of a deprecated wrapper of AuthserverAuthorizer
WrapperCalled == facade.op \in {"is_authserver_logined", "access_authserver_service"}

\* C16: a deprecated wrapper ends as the AuthserverAuthorizer operation it
\* delegates to: access_authserver_service returns the Response that
\* access_service returned, is_authserver_logined what is_logined returned
C16_WrapperReturnsBackendResult ==
    WrapperCalled =>
        /\ Len(facade.invocations) = 1
        /\ facade.invocations[1].backend = "AuthserverAuthorizer"
        /\ facade.invocations[1].args = facade.args
        /\ facade.result = facade.invocations[1].answer

-----------------------------------------------------------------------------
(* C19: the functions of mycqu.auth and their backend *)

\* the last call was of one of the four functions that take use_sso
FacadeCalled == facade.op \in {"is_logined", "logout", "access_service", "login"}

\* the arguments of the call but use_sso
Passed(args) == [k \in (DOMAIN args) \ {"use_sso"} |-> args[k]]

\* C19: a call of is_logined, logout, access_service or login invokes one
\* classmethod, the one of its own name, of SSOAuthorizer when use_sso is
\* true (or left out) and of AuthserverAuthorizer when it is false, with the
\* caller's other arguments as they are; is_logined, access_service and
\* login end as that classmethod does, logout returns None
C19_OneBackendPerCall ==
    FacadeCalled =>
        /\ Len(facade.invocations) = 1
        /\ facade.invocations[1].backend =
                (IF facade.args.use_sso THEN "SSOAuthorizer"
                                        ELSE "AuthserverAuthorizer")
        /\ facade.invocations[1].op = facade.op
        /\ facade.invocations[1].args = Passed(facade.args)
        /\ facade.op # "logout" => facade.result = facade.invocations[1].answer
        /\ facade.op = "logout" => facade.result = Return("None")

\* login was called with use_sso=False and returned what
\* AuthserverAuthorizer.login returned
C19_Witness ==
    /\ facade.op = "login"
    /\ ~facade.args.use_sso
    /\ facade.args.kick_others
    /\ facade.invocations[1].backend = "AuthserverAuthorizer"
    /\ facade.result = Return("Response")

-----------------------------------------------------------------------------
(* mycqu.card: _get_ticket *)

\* a str is the sequence of its characters
TicketMarker == <<"t", "i", "c", "k", "e", "t", "=">>
Quote == <<"'">>

\* the pieces a reply body is put together from
Pieces == { TicketMarker, Quote, <<"x">>, <<"A", "B">> }

\* the bodies of at most n pieces
RECURSIVE BodiesOf(_)
BodiesOf(n) ==
    IF n = 0 THEN { <<>> }
    ELSE LET shorter == BodiesOf(n - 1)
         IN  shorter \cup { b \o piece : b \in shorter, piece \in Pieces }

Bodies == BodiesOf(MaxPieces)

\* str.find(sub, start): the lowest index (from 0) not below start at which
\* sub occurs in text, -1 when there is none
find(text, sub, start) ==
    LET hits == { i \in start..(Len(text) - Len(sub)) :
                    \A j \in 1..Len(sub) : text[i + j] = sub[j] }
    IN  IF hits = {} THEN -1
        ELSE CHOOSE i \in hits : \A h \in hits : i <= h

\* an index of a slice: a negative one counts from the end, and both ends
\* are clipped to the text
clip(index, n) ==
    IF index < 0 THEN (IF index + n < 0 THEN 0 ELSE index + n)
    ELSE IF index > n THEN n ELSE index

\* text[from:to]
slice(text, from, to) ==
    LET lo == clip(from, Len(text))
        hi == clip(to, Len(text))
    IN  IF lo >= hi THEN <<>> ELSE SubSeq(text, lo + 1, hi)

\* lines 47-55: _get_ticket on the reply to its POST
get_ticket(status_code, text) ==
    IF status_code # 200
    THEN [outcome |-> "CQUWebsiteError", ticket |-> <<>>]
    ELSE LET ticket_start == find(text, TicketMarker, 0)
         IN  IF ticket_start > 0
             THEN LET ticket_end == find(text, Quote, ticket_start)
                  IN  [outcome |-> "returned",
                       ticket |-> slice(text, ticket_start + Len(TicketMarker),
                                        ticket_end)]
             ELSE [outcome |-> "TicketGetError", ticket |-> <<>>]

\* lines 37-55: one call of _get_ticket, the reply being the provider's
GetTicket ==
    /\ \E status_code \in StatusCodes, text \in Bodies :
        LET got == get_ticket(status_code, text)
        IN  card' = [op |-> "_get_ticket", status_code |-> status_code,
                     text |-> text, outcome |-> got.outcome,
                     ticket |-> got.ticket]
    /\ UNCHANGED <<authVars, facade>>

InitCard ==
    /\ NoAuthorizer
    /\ facade = NoCall
    /\ card = NoCall

NextCard == GetTicket

SpecCard == InitCard /\ [][NextCard]_vars

-----------------------------------------------------------------------------
(* C20: the ticket _get_ticket returns *)

\* the text between the first 'ticket=' of a body that holds one and the
\* next single quote, or the end of the body when no quote follows
TicketIn(text) ==
    LET start == find(text, TicketMarker, 0) + Len(TicketMarker)
        rest == SubSeq(text, start + 1, Len(text))
        quote == find(rest, Quote, 0)
    IN  IF quote = -1 THEN rest ELSE SubSeq(rest, 1, quote)

\* C20: _get_ticket raises CQUWebsiteError when the reply's status is not
\* 200; otherwise it returns the text between the first 'ticket=' of the
\* body and the next single quote whenever the body holds 'ticket=', at
\* position 0 too and also when no quote follows, and raises TicketGetError
\* only when the body holds no 'ticket='
C20_TicketBetweenMarkers ==
    card.op = "_get_ticket" =>
        IF card.status_code # 200
        THEN card.outcome = "CQUWebsiteError"
        ELSE IF find(card.text, TicketMarker, 0) = -1
             THEN card.outcome = "TicketGetError"
             ELSE /\ card.outcome = "returned"
                  /\ card.ticket = TicketIn(card.text)

=============================================================================
